---- MODULE Spec2Model ----
(***************************************************************************)
(* Model of the latency benchmark: the sequential request loop of          *)
(* benchmark.py (run_benchmark, with retry, linear backoff, protocol       *)
(* fallback and pacing), the request executor (make_request), the          *)
(* statistics and histogram calculators, and the API handler of api.py     *)
(* that runs the loop and reports the two derived values; the copy of the  *)
(* loop in main.py with the command line's async_main around it.           *)
(*                                                                         *)
(* Durations (elapsed times, delays) are whole numbers of a time unit.     *)
(* A step of the model is the code between two suspension points of the    *)
(* coroutine (an awaited request or an awaited sleep).                     *)
(***************************************************************************)
EXTENDS Integers, Sequences, FiniteSets, TLC

(***************************************************************************)
(* Bounds of the model.                                                    *)
(***************************************************************************)
MaxRequests == 2
MaxRetries == 2
MaxCount == 100
MaxBins == 4

(***************************************************************************)
(* Values of the program.                                                  *)
(***************************************************************************)
None == "None"
Body == "body"
NoException == [type |-> "None", ssl |-> FALSE]
NoRequest == [kind |-> "none", target |-> <<>>, prompt |-> <<>>]
NoStats == [count |-> -1]
NoResponse == [status |-> 0]
NoPost == [raw |-> "none", ssl_text |-> FALSE, elapsed |-> 0]

\* api.py lines 15-16: the configured credential pair (the defaults)
API_USERNAME == "admin"
API_PASSWORD == "password"

\* The Authorization header of an HTTP request: absent, or a Basic pair.
NoCredentials == [present |-> FALSE, username |-> "", password |-> ""]
Credentials ==
    {NoCredentials}
    \cup [present : {TRUE}, username : {"admin", "alice"}, password : {"password", "guess"}]

\* The endpoints a run is configured with: a scheme and the rest of the URL.
Endpoints == {<<"https://", "host">>, <<"http://", "host">>}
BasePrompt == <<"prompt">>
Suffixes == {"rnd1", "rnd2"}
RetryDelays == {2}
RequestDelays == {2}
\* The durations a request can take: a short one and a long one.
ElapsedTimes == {1, 2}

\* What the transport does with one POST: a response with status 200 whose
\* body parses to a value, parses to null (response.json() is then None) or
\* does not parse, a response with another status, or an exception
\* of one of the three classes make_request distinguishes.
RawOutcomes == {"200_json", "200_null", "200_unparseable", "non200",
                "TimeoutException", "RequestError", "Exception"}
Raising == {"TimeoutException", "RequestError", "Exception"}

\* One request as the transport sees it: what happened, whether the raised
\* exception is SSL/TLS-related (an ssl.SSLError, or "SSL" or "TLS" in its
\* text), and the time it took.
TransportOutcomes ==
    {o \in [raw : RawOutcomes, ssl_text : BOOLEAN, elapsed : ElapsedTimes] :
        o.ssl_text => o.raw \in Raising}

\* What a returned request looks like from outside: whether it brought a body
\* (status 200, parseable), which error it ended with, and how long it took.
Returned(kind, o) ==
    [kind |-> kind,
     body |-> (o.raw = "200_json"),
     error |-> IF o.raw \notin Raising /\ o.raw # "200_unparseable" THEN "none"
               ELSE IF o.ssl_text THEN "ssl" ELSE "other",
     elapsed |-> o.elapsed]
NoReturn == [kind |-> "none", body |-> FALSE, error |-> "none", elapsed |-> 0]

VARIABLES
    \* the Run Configuration (parameters of run_benchmark)
    endpoint, num_requests, max_retries, retry_delay, request_delay, debug,
    randomize_prompt,
    \* whether the installed httpx module has an attribute SSLError: "unknown"
    \* until line 103 looks it up, then "defined" or "missing"
    httpx_SSLError,
    \* locals of run_benchmark
    response_times, i, retry_count, prompt_to_use,
    response_time, response_data, exception,
    \* position of the coroutine and what it waits for
    pc, inflight, sleeping,
    \* the handler's results
    stats, histogram, response,
    \* history of the run
    sample_iter,      \* the iteration each sample of response_times comes from
    attempts,         \* primary attempts started in the current iteration
    requests_iter,    \* requests (primary and fallback) started in the current iteration
    backoffs,         \* backoff sleeps started in the current iteration
    pacing_sleeps,    \* pacing sleeps started in the run
    all_failed,       \* no request of the run has returned a body
    ssl_seen,         \* some request of the run returned an SSL/TLS-related error
    last_returned,    \* the request that returned last, seen from outside
    \* the HTTP request to POST /benchmark: its Authorization header
    credentials,
    \* what the transport did in a call of make_request made on its own
    posted,
    \* the command line (main.py): the flag --try-http, the endpoint async_main
    \* passes on, the position of main.py's run_benchmark and its locals
    try_http, cli_endpoint,
    cli_pc, cli_i, cli_retry_count, cli_response_times,
    cli_response_time, cli_response_data, cli_exception,
    cli_inflight, cli_sleeping,
    \* what async_main computed and displayed, and the exit code of the process
    cli_stats, cli_histogram, displayed, exit_code,
    \* history of the command line's run
    cli_attempts,       \* primary attempts started in the current iteration
    cli_pacing_sleeps,  \* pacing sleeps started in the run
    \* history of a run of benchmark.py's run_benchmark that is counted
    total_attempts,     \* primary attempts started in the run
    total_requests      \* requests (primary and fallback) started in the run

config == <<endpoint, num_requests, max_retries, retry_delay, request_delay,
            debug, randomize_prompt>>
outcome == <<response_time, response_data, exception>>
results == <<stats, histogram, response>>
cli_loop == <<cli_pc, cli_i, cli_retry_count, cli_response_times,
              cli_response_time, cli_response_data, cli_exception,
              cli_inflight, cli_sleeping, cli_attempts, cli_pacing_sleeps>>
totals == <<total_attempts, total_requests>>
cli_main == <<try_http, cli_endpoint, cli_stats, cli_histogram, displayed, exit_code>>
vars == <<endpoint, num_requests, max_retries, retry_delay, request_delay, debug,
          randomize_prompt, httpx_SSLError,
          response_times, i, retry_count, prompt_to_use,
          response_time, response_data, exception,
          pc, inflight, sleeping, stats, histogram, response,
          sample_iter, attempts, requests_iter, backoffs, pacing_sleeps,
          all_failed, ssl_seen, last_returned,
          credentials, posted, try_http, cli_endpoint,
          cli_pc, cli_i, cli_retry_count, cli_response_times,
          cli_response_time, cli_response_data, cli_exception,
          cli_inflight, cli_sleeping, cli_stats, cli_histogram, displayed, exit_code,
          cli_attempts, cli_pacing_sleeps, total_attempts, total_requests>>

(***************************************************************************)
(* make_request: the outcome of one request, from what the transport did.  *)
(* ssl_text says whether the exception is an ssl.SSLError or carries "SSL" *)
(* or "TLS" in its text.                                                    *)
(***************************************************************************)
\* the body parsed whatever the status is
make_request_any_status(raw, ssl_text, elapsed) ==
    CASE raw = "200_json" ->
            [response_time |-> elapsed, response_data |-> Body, exception |-> NoException]
      [] raw = "200_null" ->
            [response_time |-> elapsed, response_data |-> None, exception |-> NoException]
      [] raw = "non200" ->
            [response_time |-> elapsed, response_data |-> Body, exception |-> NoException]
      [] raw = "TimeoutException" ->
            [response_time |-> elapsed, response_data |-> None,
             exception |-> [type |-> "TimeoutException", ssl |-> ssl_text]]
      [] raw = "RequestError" ->
            [response_time |-> elapsed, response_data |-> None,
             exception |-> [type |-> "RequestError", ssl |-> ssl_text]]
      [] raw = "200_unparseable" ->
            [response_time |-> elapsed, response_data |-> None,
             exception |-> [type |-> "Exception", ssl |-> ssl_text]]
      [] OTHER ->
            [response_time |-> elapsed, response_data |-> None,
             exception |-> [type |-> "Exception", ssl |-> ssl_text]]

\* lines 35-64
make_request(raw, ssl_text, elapsed) ==
    CASE raw = "200_json" ->
            [response_time |-> elapsed, response_data |-> Body, exception |-> NoException]
      [] raw = "200_null" ->
            \* response.json() is None
            [response_time |-> elapsed, response_data |-> None, exception |-> NoException]
      [] raw = "non200" ->
            [response_time |-> elapsed, response_data |-> None, exception |-> NoException]
      [] raw = "TimeoutException" ->
            [response_time |-> elapsed, response_data |-> None,
             exception |-> [type |-> "TimeoutException", ssl |-> ssl_text]]
      [] raw = "RequestError" ->
            [response_time |-> elapsed, response_data |-> None,
             exception |-> [type |-> "RequestError", ssl |-> ssl_text]]
      [] raw = "200_unparseable" ->
            \* response.json() raises a JSON decoding error, caught by the last handler
            [response_time |-> elapsed, response_data |-> None,
             exception |-> [type |-> "Exception", ssl |-> ssl_text]]
      [] OTHER ->
            [response_time |-> elapsed, response_data |-> None,
             exception |-> [type |-> "Exception", ssl |-> ssl_text]]

(***************************************************************************)
(* The conditions and expressions of run_benchmark.                        *)
(***************************************************************************)
\* the loop body entered once whatever max_retries is
WhileCondAtLeastOnce(rc, mr) == rc = 0 \/ rc <= mr

\* line 96: while retry_count <= max_retries
WhileCond(rc, mr) == rc <= mr

\* line 115: if retry_count <= max_retries (after the increment)
RetryAllowed(rc, mr) == rc <= mr

\* a fixed delay between retries instead of the linear one
BackoffDelayFixed(rd, rc) == rd

\* line 116: asyncio.sleep(retry_delay * retry_count)
BackoffDelay(rd, rc) == rd * rc

\* a pacing sleep after the last iteration too
PacingDueAfterLast(ii, n) == ii < n

\* line 119: if i < num_requests - 1
PacingDue(ii, n) == ii < n - 1

\* endpoint.startswith("https://")
startswith_https(ep) == Len(ep) > 0 /\ ep[1] = "https://"

\* endpoint.replace("https://", "http://"): every occurrence is replaced
replace_https(ep) == [k \in DOMAIN ep |-> IF ep[k] = "https://" THEN "http://" ELSE ep[k]]

\* the fallback without the debug condition
FallbackGuardNoDebug(rd, dbg, ep) == rd = None /\ startswith_https(ep)

\* line 102: if response_data is None and debug and endpoint.startswith("https://")
FallbackGuard(rd, dbg, ep) == rd = None /\ dbg /\ startswith_https(ep)

\* line 103: the attribute SSLError of the installed httpx module is there or
\* not, and the same at every lookup
LookupSSLError(known) == IF known = "unknown" THEN {"defined", "missing"} ELSE {known}

\* line 103, once the tuple (ssl.SSLError, httpx.SSLError) has been built:
\* isinstance(exception, ...) or "SSL" in str(exception) or "TLS" in str(exception)
IsSSLRelated(exc) == exc.ssl

\* line 92: random.choices(...) is called only when randomize_prompt is set
Draws == IF randomize_prompt THEN Suffixes ELSE {"none"}

\* lines 91-95: the effective prompt of an iteration
Prompt(sfx) ==
    IF randomize_prompt THEN BasePrompt \o <<" [rnd:", sfx, "]">> ELSE BasePrompt

\* lines 97-99 and 104-107: the two requests the loop issues
PrimaryRequest(p) == [kind |-> "primary", target |-> endpoint, prompt |-> p]
\* the fallback request built from the base prompt
FallbackRequestBasePrompt(p) ==
    [kind |-> "fallback", target |-> replace_https(endpoint), prompt |-> BasePrompt]
FallbackRequest(p) == [kind |-> "fallback", target |-> replace_https(endpoint), prompt |-> p]

\* the fallback's elapsed time bound to another name: the primary's is kept
AssignFallbackKeepTime(o, r) ==
    [response_time |-> o.response_time, response_data |-> r.response_data,
     exception |-> o.exception]

\* the fallback's whole outcome bound to other names: the primary's is kept
AssignFallbackIgnored(o, r) == o

\* line 106: response_time, response_data, http_exception = await make_request(...)
\* overwrites the first two locals and leaves exception as the primary set it
AssignFallback(o, r) ==
    [response_time |-> r.response_time, response_data |-> r.response_data,
     exception |-> o.exception]

\* line 110: response_times.append(response_time)
RecordSample(times, rt) == Append(times, rt)

(***************************************************************************)
(* Control flow of run_benchmark between suspension points.  Ctl is the    *)
(* control state; ForLoop and AfterWhile give the control state at the     *)
(* next suspension point (or at the return).                               *)
(***************************************************************************)
Ctl == [pc |-> pc, i |-> i, retry_count |-> retry_count,
        prompt_to_use |-> prompt_to_use, inflight |-> inflight,
        sleeping |-> sleeping, attempts |-> attempts,
        requests_iter |-> requests_iter, backoffs |-> backoffs,
        pacing_sleeps |-> pacing_sleeps]

SetCtl(c) ==
    /\ pc' = c.pc
    /\ i' = c.i
    /\ retry_count' = c.retry_count
    /\ prompt_to_use' = c.prompt_to_use
    /\ inflight' = c.inflight
    /\ sleeping' = c.sleeping
    /\ attempts' = c.attempts
    /\ requests_iter' = c.requests_iter
    /\ backoffs' = c.backoffs
    /\ pacing_sleeps' = c.pacing_sleeps

\* lines 97-100: the primary attempt is sent
SendPrimary(c) ==
    [c EXCEPT !.pc = "request", !.inflight = PrimaryRequest(c.prompt_to_use),
              !.sleeping = 0, !.attempts = @ + 1, !.requests_iter = @ + 1]

\* the fallback request started as a task of its own while the loop goes on
\* to its backoff sleep
SendFallbackDetached(c) ==
    [c EXCEPT !.pc = "backoff", !.inflight = FallbackRequest(c.prompt_to_use),
              !.requests_iter = @ + 1, !.retry_count = @ + 1,
              !.sleeping = BackoffDelay(retry_delay, c.retry_count + 1)]

\* lines 104-108: the fallback request is sent and awaited
SendFallback(c) ==
    [c EXCEPT !.pc = "fallback", !.inflight = FallbackRequest(c.prompt_to_use),
              !.requests_iter = @ + 1]

RECURSIVE ForLoop(_, _, _)
RECURSIVE AfterWhile(_, _, _)

\* the for loop running one iteration too many
ForLoopOneMore(ii, sfx, c) ==
    IF ii > num_requests
    THEN [c EXCEPT !.pc = "returned", !.inflight = NoRequest, !.sleeping = 0]
    ELSE LET c1 == [c EXCEPT !.i = ii, !.retry_count = 0, !.prompt_to_use = Prompt(sfx),
                             !.inflight = NoRequest, !.sleeping = 0, !.attempts = 0,
                             !.requests_iter = 0, !.backoffs = 0]
         IN IF WhileCond(0, max_retries) THEN SendPrimary(c1)
            ELSE AfterWhile(ii, sfx, c1)

\* lines 88-96: the for loop at index ii, up to the first attempt of the iteration
ForLoop(ii, sfx, c) ==
    IF ii >= num_requests
    THEN [c EXCEPT !.pc = "returned", !.inflight = NoRequest, !.sleeping = 0]
    ELSE LET c1 == [c EXCEPT !.i = ii, !.retry_count = 0, !.prompt_to_use = Prompt(sfx),
                             !.inflight = NoRequest, !.sleeping = 0, !.attempts = 0,
                             !.requests_iter = 0, !.backoffs = 0]
         IN IF WhileCond(0, max_retries) THEN SendPrimary(c1)
            ELSE AfterWhile(ii, sfx, c1)

\* lines 119-121: after the while loop of iteration ii
AfterWhile(ii, sfx, c) ==
    IF PacingDue(ii, num_requests)
    THEN [c EXCEPT !.pc = "pacing", !.inflight = NoRequest,
                   !.sleeping = request_delay, !.pacing_sleeps = @ + 1]
    ELSE ForLoop(ii + 1, sfx, c)

\* lines 109-118: what the loop does with the outcome it uses
Decide(rt, rd, sfx, c) ==
    IF rd # None
    THEN /\ response_times' = RecordSample(response_times, rt)
         /\ sample_iter' = Append(sample_iter, i)
         /\ SetCtl(AfterWhile(i, sfx, c))
    ELSE /\ UNCHANGED <<response_times, sample_iter>>
         /\ LET c1 == [c EXCEPT !.retry_count = @ + 1, !.inflight = NoRequest] IN
              IF RetryAllowed(c1.retry_count, max_retries)
              THEN SetCtl([c1 EXCEPT !.pc = "backoff", !.backoffs = @ + 1,
                               !.sleeping = BackoffDelay(retry_delay, c1.retry_count)])
              ELSE SetCtl(AfterWhile(i, sfx, c1))

(***************************************************************************)
(* Arithmetic of the calculators.  Latencies are whole numbers of a time   *)
(* unit; a quotient is kept as a reduced fraction [num, den].              *)
(***************************************************************************)
RECURSIVE Gcd(_, _)
Gcd(a, b) == IF b = 0 THEN a ELSE Gcd(b, a % b)

Abs(x) == IF x < 0 THEN -x ELSE x

Frac(n, d) ==
    LET g == Gcd(Abs(n), Abs(d)) IN
    IF g = 0 THEN [num |-> 0, den |-> 1] ELSE [num |-> n \div g, den |-> d \div g]

RECURSIVE Pow2(_)
Pow2(n) == IF n <= 0 THEN 1 ELSE 2 * Pow2(n - 1)

RECURSIVE BitLen(_)
BitLen(n) == IF n <= 0 THEN 0 ELSE 1 + BitLen(n \div 2)

RECURSIVE SumSeq(_, _)
SumSeq(s, k) == IF k = 0 THEN 0 ELSE s[k] + SumSeq(s, k - 1)

RECURSIVE SumSquares(_, _)
SumSquares(s, k) == IF k = 0 THEN 0 ELSE s[k] * s[k] + SumSquares(s, k - 1)

\* The doubles nearest to 0.9, 0.95 and 0.99 (lines 138-140): each is
\* m / 2^53, and m is given by its four base-2^15 digits, lowest first.
Double_0_9 == <<19661, 6553, 13107, 230>>
Double_0_95 == <<26214, 19660, 6553, 243>>
Double_0_99 == <<18350, 30146, 14417, 253>>

\* 0.9 used for every percentile
IntOfProductNineTenths(count, m) == (count * 9) \div 10

\* int(count * x) for the double x = m / 2^53 in [0.5, 1) and 0 <= count < 2^15:
\* the exact product count * m, rounded to 53 significant bits (round half to
\* even) as the float multiplication does, then truncated as int() does.
IntOfProduct(count, m) ==
    LET B == 32768
        t0 == count * m[1]
        t1 == count * m[2] + (t0 \div B)
        t2 == count * m[3] + (t1 \div B)
        t3 == count * m[4] + (t2 \div B)
        d0 == t0 % B
        d1 == t1 % B
        d2 == t2 % B
        d3 == t3 % B
        d4 == t3 \div B
        whole == d4 * 128 + (d3 \div 256)     \* floor of the exact product
        b == BitLen(whole)                    \* bits the rounding drops
        kept_all_ones == /\ d3 % 256 = 255
                         /\ d2 = B - 1
                         /\ d1 = B - 1
                         /\ d0 \div Pow2(b) = Pow2(15 - b) - 1
        round_up == (d0 % Pow2(b)) >= Pow2(b - 1)
    IN IF whole > 0 /\ kept_all_ones /\ round_up THEN whole + 1 ELSE whole

\* seq[k] of a Python list, k possibly negative
PyIndex(seq, k) == IF k < 0 THEN seq[Len(seq) + k + 1] ELSE seq[k + 1]

\* the list left in the order it came in
unsorted(t) == t

\* sorted(response_times): ascending, equal values in their original order.
\* SubSeq(f, 1, n) is the sequence f itself, with its elements computed once.
sorted(t) ==
    LET n == Len(t)
        rank == SubSeq([k \in 1..n |->
                    1 + Cardinality({j \in 1..n : t[j] < t[k] \/ (t[j] = t[k] /\ j < k)})],
                    1, n)
    IN SubSeq([r \in 1..n |-> t[CHOOSE k \in 1..n : rank[k] = r]], 1, n)

\* min(...) and max(...) of a non-empty list
min(t) == CHOOSE x \in {t[k] : k \in 1..Len(t)} : \A k \in 1..Len(t) : x <= t[k]
max(t) == CHOOSE x \in {t[k] : k \in 1..Len(t)} : \A k \in 1..Len(t) : x >= t[k]

\* statistics.mean, statistics.median and the square of statistics.stdev
mean(t) == Frac(SumSeq(t, Len(t)), Len(t))

median(st) ==
    LET n == Len(st) IN
    IF n % 2 = 1 THEN Frac(st[(n \div 2) + 1], 1)
    ELSE Frac(st[n \div 2] + st[(n \div 2) + 1], 2)

variance(t) ==
    LET n == Len(t)
        sum == SumSeq(t, n)
    IN Frac(n * SumSquares(t, n) - sum * sum, n * (n - 1))

Zero == Frac(0, 1)

(***************************************************************************)
(* calculate_statistics (lines 123-151).  The field stdev holds the        *)
(* fraction whose square root the code returns.                            *)
(***************************************************************************)
calculate_statistics(times) ==
    IF times = <<>>
    THEN [count |-> 0, min |-> 0, max |-> 0, mean |-> Zero, median |-> Zero,
          stdev |-> Zero, p90 |-> 0, p95 |-> 0, p99 |-> 0]
    ELSE LET sorted_times == sorted(times)
             count == Len(sorted_times)
             p90_index == IntOfProduct(count, Double_0_9)
             p95_index == IntOfProduct(count, Double_0_95)
             p99_index == IntOfProduct(count, Double_0_99)
         IN [count |-> count,
             min |-> min(sorted_times),
             max |-> max(sorted_times),
             mean |-> mean(sorted_times),
             median |-> median(sorted_times),
             stdev |-> IF count > 1 THEN variance(sorted_times) ELSE Zero,
             p90 |-> IF count >= 10 THEN PyIndex(sorted_times, p90_index - 1)
                     ELSE PyIndex(sorted_times, -1),
             p95 |-> IF count >= 20 THEN PyIndex(sorted_times, p95_index - 1)
                     ELSE PyIndex(sorted_times, -1),
             p99 |-> IF count >= 100 THEN PyIndex(sorted_times, p99_index - 1)
                     ELSE PyIndex(sorted_times, -1)]

(***************************************************************************)
(* Floating-point arithmetic of the bar scaling (lines 167 and 172).  The  *)
(* double n / d is [m, shift]: its 53-bit significand m, given by its four *)
(* base-2^15 digits, lowest first, and the value is m / 2^(45 + shift).    *)
(***************************************************************************)
\* the least shift s for which the quotient n * 2^s / d has 8 bits before the
\* binary point
RECURSIVE QuotientShift(_, _, _)
QuotientShift(n, d, s) ==
    IF (n * Pow2(s)) \div d >= 128 THEN s ELSE QuotientShift(n, d, s + 1)

\* n / d for integers 0 < n < 128 * d, d < 2^15: the correctly rounded double
\* (long division in base 2^15, then rounding to nearest, ties to even)
FloatDiv(n, d) ==
    LET B == 32768
        s == QuotientShift(n, d, 0)
        top == (n * Pow2(s)) \div d
        r0 == (n * Pow2(s)) % d
        d1 == (r0 * B) \div d
        r1 == (r0 * B) % d
        d2 == (r1 * B) \div d
        r2 == (r1 * B) % d
        d3 == (r2 * B) \div d
        r3 == (r2 * B) % d
        up == 2 * r3 > d \/ (2 * r3 = d /\ d3 % 2 = 1)
        e3 == d3 + (IF up THEN 1 ELSE 0)
        e2 == d2 + (e3 \div B)
        e1 == d1 + (e2 \div B)
        etop == top + (e1 \div B)
    IN IF etop = 256
       THEN [m |-> <<0, 0, 0, 128>>, shift |-> s - 1]
       ELSE [m |-> <<e3 % B, e2 % B, e1 % B, etop>>, shift |-> s]

\* int(count * f) for 0 <= count < 2^15 and a double f: the exact product
\* count * m, rounded to 53 significant bits (to nearest, ties to even) as the
\* float multiplication does, then the fraction cut off as int() does
IntOfScaled(count, f) ==
    LET B == 32768
        t0 == count * f.m[1]
        t1 == count * f.m[2] + (t0 \div B)
        t2 == count * f.m[3] + (t1 \div B)
        top == count * f.m[4] + (t2 \div B)    \* the product is top * 2^45 + ...
        p0 == t0 % B
        p1 == t1 % B
        p2 == t2 % B
        t == BitLen(top) - 8                   \* bits the rounding drops
        low == p0 % Pow2(t)
        up == /\ t > 0
              /\ \/ 2 * low > Pow2(t)
                 \/ (2 * low = Pow2(t) /\ (p0 \div Pow2(t)) % 2 = 1)
        carry == /\ up
                 /\ p0 - low + Pow2(t) = B
                 /\ p1 = B - 1
                 /\ p2 = B - 1
        whole == top + (IF carry THEN 1 ELSE 0)
    IN IF count = 0 THEN 0
       ELSE IF f.shift >= 0 THEN whole \div Pow2(f.shift)
       ELSE whole * Pow2(-f.shift)

\* a + b of two fractions
FracAdd(a, b) == Frac(a.num * b.den + b.num * a.den, a.den * b.den)

\* a < b of two fractions with positive denominators
FracLess(a, b) == a.num * b.den < b.num * a.den

(***************************************************************************)
(* generate_ascii_histogram (lines 153-174): the text for no data, and     *)
(* otherwise the bucket width, the bucket counts and the lines, each with  *)
(* the bounds of its bucket, the length of its bar and its count.  The     *)
(* latencies are whole numbers of a time unit, for which the quotients of  *)
(* lines 161, 164 and 170 are the exact ones.                              *)
(***************************************************************************)
\* a width of one time unit for equal samples
BinWidthUnit(min_time, max_time, bins) ==
    IF min_time = max_time THEN Frac(1, 1) ELSE Frac(max_time - min_time, bins)

\* lines 158-161
BinWidth(min_time, max_time, bins) ==
    IF min_time = max_time THEN Frac(1, 10) ELSE Frac(max_time - min_time, bins)

\* the index without the clamp
BinIndexUnclamped(bins, q) == q

\* line 164: min(bins - 1, int(...))
BinIndex(bins, q) == IF bins - 1 < q THEN bins - 1 ELSE q

\* lines 163-165: the loop over the samples number lo to hi, in their order.
\* The range is split in two halves, and the counts after the first half are
\* computed before the second half is entered.
RECURSIVE CountBins(_, _, _, _, _, _)
CountBins(times, lo, hi, min_time, bin_width, counts) ==
    IF lo > hi THEN counts
    ELSE IF lo = hi
    THEN [counts EXCEPT ![BinIndex(Len(counts),
                                   ((times[lo] - min_time) * bin_width.den)
                                       \div bin_width.num) + 1] = @ + 1]
    ELSE LET mid == (lo + hi) \div 2
             first == CountBins(times, lo, mid, min_time, bin_width, counts)
         IN IF Len(first) = Len(counts)
            THEN CountBins(times, mid + 1, hi, min_time, bin_width, first)
            ELSE first

\* max(bin_counts), for at least one bucket
MaxOfCounts(counts) ==
    CHOOSE x \in {counts[k] : k \in 1..Len(counts)} : \A k \in 1..Len(counts) : x >= counts[k]

\* lines 169-173: the line of bucket number idx (from 0)
HistogramLine(idx, count, min_time, bin_width, scale_factor) ==
    LET bin_start == FracAdd(Frac(min_time, 1), Frac(idx * bin_width.num, bin_width.den))
        bin_end == FracAdd(bin_start, bin_width)
    IN [bin_start |-> bin_start, bin_end |-> bin_end,
        bar |-> IntOfScaled(count, scale_factor), count |-> count]

generate_ascii_histogram(times, bins) ==
    IF times = <<>> THEN "No data to display"
    ELSE LET min_time == min(times)
             max_time == max(times)
             bin_width == BinWidth(min_time, max_time, bins)
             bin_counts == CountBins(times, 1, Len(times), min_time, bin_width,
                                    [k \in 1..bins |-> 0])
             max_count == IF bin_counts # <<>> THEN MaxOfCounts(bin_counts) ELSE 0
             scale_factor == IF max_count > 0 THEN FloatDiv(40, max_count)
                             ELSE FloatDiv(1, 1)
         IN [bin_width |-> bin_width,
             bin_counts |-> bin_counts,
             lines |-> [k \in 1..bins |->
                          HistogramLine(k - 1, bin_counts[k], min_time, bin_width,
                                        scale_factor)]]

(***************************************************************************)
(* Initial states: the handler is about to call run_benchmark.             *)
(***************************************************************************)
CorrectCredentials ==
    [present |-> TRUE, username |-> API_USERNAME, password |-> API_PASSWORD]

\* the command line has not been started
CliIdle ==
    /\ try_http = FALSE
    /\ cli_endpoint = <<>>
    /\ cli_pc = "idle"
    /\ cli_i = -1
    /\ cli_retry_count = 0
    /\ cli_response_times = <<>>
    /\ cli_response_time = 0
    /\ cli_response_data = None
    /\ cli_exception = NoException
    /\ cli_inflight = NoRequest
    /\ cli_sleeping = 0
    /\ cli_stats = NoStats
    /\ cli_histogram = None
    /\ displayed = FALSE
    /\ exit_code = -1
    /\ cli_attempts = 0
    /\ cli_pacing_sleeps = 0

\* what a step of the API's handler and loop leaves alone
ApiFrame == UNCHANGED <<credentials, posted, cli_loop, cli_main, totals>>

\* run_benchmark has not been entered
Fresh ==
    /\ httpx_SSLError = "unknown"
    /\ response_times = <<>>
    /\ i = -1
    /\ retry_count = 0
    /\ prompt_to_use = BasePrompt
    /\ response_time = 0
    /\ response_data = None
    /\ exception = NoException
    /\ inflight = NoRequest
    /\ sleeping = 0
    /\ stats = NoStats
    /\ histogram = None
    /\ response = NoResponse
    /\ sample_iter = <<>>
    /\ attempts = 0
    /\ requests_iter = 0
    /\ backoffs = 0
    /\ pacing_sleeps = 0
    /\ all_failed = TRUE
    /\ ssl_seen = FALSE
    /\ last_returned = NoReturn
    /\ total_attempts = 0
    /\ total_requests = 0

Init ==
    /\ credentials = CorrectCredentials
    /\ posted = NoPost
    /\ CliIdle
    /\ endpoint \in Endpoints
    /\ num_requests \in 0..MaxRequests
    /\ max_retries \in -1..MaxRetries
    /\ retry_delay \in RetryDelays
    /\ request_delay \in RequestDelays
    /\ debug \in BOOLEAN
    /\ randomize_prompt \in BOOLEAN
    /\ pc = "call"
    /\ Fresh

(***************************************************************************)
(* The steps of run_benchmark.                                             *)
(***************************************************************************)
\* lines 79-100: run_benchmark is entered and runs to its first suspension
Enter(sfx) ==
    /\ pc = "call"
    /\ SetCtl(ForLoop(0, sfx, Ctl))
    /\ UNCHANGED <<config, httpx_SSLError, outcome, results, response_times, sample_iter,
                   all_failed, ssl_seen, last_returned>>

\* lines 98-120: the primary attempt returns
PrimaryReturns(o, sfx) ==
    /\ pc = "request"
    /\ all_failed' = (all_failed /\ o.raw # "200_json")
    /\ ssl_seen' = (ssl_seen \/ o.ssl_text)
    /\ last_returned' = Returned("primary", o)
    /\ LET r == make_request(o.raw, o.ssl_text, o.elapsed) IN
        /\ response_time' = r.response_time
        /\ response_data' = r.response_data
        /\ exception' = r.exception
        /\ IF FallbackGuard(r.response_data, debug, endpoint) /\ r.exception # NoException
           THEN \* line 103 builds the tuple (ssl.SSLError, httpx.SSLError)
                /\ httpx_SSLError' \in LookupSSLError(httpx_SSLError)
                /\ IF httpx_SSLError' = "missing"
                   THEN \* the lookup raises AttributeError, which nothing catches
                        /\ SetCtl([Ctl EXCEPT !.pc = "raised", !.inflight = NoRequest])
                        /\ UNCHANGED <<response_times, sample_iter>>
                   ELSE IF IsSSLRelated(r.exception)
                        THEN /\ SetCtl(SendFallback(Ctl))
                             /\ UNCHANGED <<response_times, sample_iter>>
                        ELSE Decide(r.response_time, r.response_data, sfx, Ctl)
           ELSE /\ UNCHANGED httpx_SSLError
                /\ Decide(r.response_time, r.response_data, sfx, Ctl)
    /\ UNCHANGED <<config, results>>

\* lines 106-120: the fallback request returns
FallbackReturns(o, sfx) ==
    /\ pc = "fallback"
    /\ all_failed' = (all_failed /\ o.raw # "200_json")
    /\ ssl_seen' = (ssl_seen \/ o.ssl_text)
    /\ last_returned' = Returned("fallback", o)
    /\ LET r == AssignFallback(
                    [response_time |-> response_time, response_data |-> response_data,
                     exception |-> exception],
                    make_request(o.raw, o.ssl_text, o.elapsed)) IN
        /\ response_time' = r.response_time
        /\ response_data' = r.response_data
        /\ exception' = r.exception
        /\ Decide(r.response_time, r.response_data, sfx, Ctl)
    /\ UNCHANGED <<config, httpx_SSLError, results>>

\* lines 116, 96-100: the backoff sleep ends and the while loop continues
BackoffWakes(sfx) ==
    /\ pc = "backoff"
    /\ IF WhileCond(retry_count, max_retries)
       THEN SetCtl(SendPrimary(Ctl))
       ELSE SetCtl(AfterWhile(i, sfx, [Ctl EXCEPT !.sleeping = 0]))
    /\ UNCHANGED <<config, httpx_SSLError, outcome, results, response_times, sample_iter,
                   all_failed, ssl_seen, last_returned>>

\* lines 120, 88-100: the pacing sleep ends and the for loop continues
PacingWakes(sfx) ==
    /\ pc = "pacing"
    /\ SetCtl(ForLoop(i + 1, sfx, Ctl))
    /\ UNCHANGED <<config, httpx_SSLError, outcome, results, response_times, sample_iter,
                   all_failed, ssl_seen, last_returned>>

(***************************************************************************)
(* The API handler benchmark_api (api.py lines 275-290).                   *)
(***************************************************************************)
\* the list sorted in place (response_times.sort()) by calculate_statistics
ListAfterStatisticsSortedInPlace(times) == sorted(times)

\* line 136: sorted(response_times) builds a new list, and lines 137-151 read
\* only that one: the caller's list is as it was
ListAfterStatistics(times) == times

\* lines 156-165: min, max and the for loop read the caller's list and assign
\* nothing in it
ListAfterHistogram(times) == times

\* the handler refusing an empty sequence, as the command line does
ApiRespondRefusesEmpty ==
    /\ pc = "returned"
    /\ pc' = "responded"
    /\ stats' = IF response_times = <<>> THEN NoStats
                ELSE calculate_statistics(response_times)
    /\ histogram' = IF response_times = <<>> THEN None
                    ELSE generate_ascii_histogram(response_times, 10)
    /\ response' = IF response_times = <<>> THEN [status |-> 500]
                   ELSE [status |-> 200, stats |-> stats', histogram |-> histogram']
    /\ response_times' = response_times
    /\ UNCHANGED <<config, httpx_SSLError, outcome, i, retry_count,
                   prompt_to_use,
                   inflight, sleeping, sample_iter, attempts, requests_iter,
                   backoffs, pacing_sleeps, all_failed, ssl_seen, last_returned>>

\* lines 288-290: run_benchmark has returned; the handler computes the two
\* derived values and returns them
ApiRespond ==
    /\ pc = "returned"
    /\ pc' = "responded"
    /\ stats' = calculate_statistics(response_times)
    /\ LET after_statistics == ListAfterStatistics(response_times) IN
        /\ histogram' = generate_ascii_histogram(after_statistics, 10)
        /\ response_times' = ListAfterHistogram(after_statistics)
    /\ response' = [status |-> 200, stats |-> stats', histogram |-> histogram']
    /\ UNCHANGED <<config, httpx_SSLError, outcome, i, retry_count,
                   prompt_to_use,
                   inflight, sleeping, sample_iter, attempts, requests_iter,
                   backoffs, pacing_sleeps, all_failed, ssl_seen, last_returned>>

(***************************************************************************)
(* The HTTP request to POST /benchmark (api.py lines 12-27, 53, 205-214):  *)
(* the framework resolves the dependency verify_basic_auth and validates   *)
(* the body before it calls the handler.                                   *)
(***************************************************************************)
\* the pair accepted when one of its two parts is right
verify_basic_auth_either(c) ==
    LET correct_username == c.username = API_USERNAME
        correct_password == c.password = API_PASSWORD
    IN correct_username \/ correct_password

\* lines 19-27: the pair passes (otherwise HTTPException 401 is raised)
verify_basic_auth(c) ==
    LET correct_username == c.username = API_USERNAME
        correct_password == c.password = API_PASSWORD
    IN correct_username /\ correct_password

\* line 53: num_requests: int = Field(10, ge=1, le=1000)
num_requests_Field(n) == n >= 1 /\ n <= 1000

\* the values of num_requests a body carries: those of a run, and the two
\* values next to the ends of the accepted range
BodyNumRequests == (0..MaxRequests) \cup {1001}

\* a request has arrived
InitApi ==
    /\ credentials \in Credentials
    /\ posted = NoPost
    /\ CliIdle
    /\ endpoint \in Endpoints
    /\ num_requests \in BodyNumRequests
    /\ max_retries \in -1..MaxRetries
    /\ retry_delay \in RetryDelays
    /\ request_delay \in RequestDelays
    /\ debug \in BOOLEAN
    /\ randomize_prompt \in BOOLEAN
    /\ pc = "http"
    /\ Fresh

\* lines 12, 18-27, 53, 205-214: the security scheme refuses a request without
\* credentials and verify_basic_auth a wrong pair (401); the body's fields are
\* validated (422); otherwise the handler is called
Receive ==
    /\ pc = "http"
    /\ IF ~credentials.present \/ ~verify_basic_auth(credentials)
       THEN pc' = "rejected" /\ response' = [status |-> 401]
       ELSE IF ~num_requests_Field(num_requests)
       THEN pc' = "rejected" /\ response' = [status |-> 422]
       ELSE pc' = "call" /\ UNCHANGED response
    /\ UNCHANGED <<config, httpx_SSLError, outcome, response_times, i, retry_count,
                   prompt_to_use, inflight, sleeping, stats, histogram,
                   sample_iter, attempts, requests_iter,
                   backoffs, pacing_sleeps, all_failed, ssl_seen, last_returned>>

Next ==
    \/ ApiRespond /\ ApiFrame
    \/ \E sfx \in Draws : Enter(sfx) /\ ApiFrame
    \/ \E o \in TransportOutcomes, sfx \in Draws : PrimaryReturns(o, sfx) /\ ApiFrame
    \/ \E o \in TransportOutcomes, sfx \in Draws : FallbackReturns(o, sfx) /\ ApiFrame
    \/ \E sfx \in Draws : BackoffWakes(sfx) /\ ApiFrame
    \/ \E sfx \in Draws : PacingWakes(sfx) /\ ApiFrame

Spec == Init /\ [][Next]_vars

NextApi ==
    \/ Receive /\ ApiFrame
    \/ Next

SpecApi == InitApi /\ [][NextApi]_vars

(***************************************************************************)
(* The command line (main.py): async_main, the copy of run_benchmark of    *)
(* main.py lines 114-200 and the end of the process.  The copy has no      *)
(* randomize_prompt: every request carries the base prompt.  Its           *)
(* make_request (lines 39-111), calculate_statistics (204-245) and         *)
(* generate_ascii_histogram (249-289) have the text of benchmark.py's.     *)
(***************************************************************************)
CliCtl == [pc |-> cli_pc, i |-> cli_i, retry_count |-> cli_retry_count,
           inflight |-> cli_inflight, sleeping |-> cli_sleeping,
           attempts |-> cli_attempts, pacing_sleeps |-> cli_pacing_sleeps]

CliSetCtl(c) ==
    /\ cli_pc' = c.pc
    /\ cli_i' = c.i
    /\ cli_retry_count' = c.retry_count
    /\ cli_inflight' = c.inflight
    /\ cli_sleeping' = c.sleeping
    /\ cli_attempts' = c.attempts
    /\ cli_pacing_sleeps' = c.pacing_sleeps

\* main.py lines 162-166 and 171-174: the two requests the copy issues
CliPrimaryRequest == [kind |-> "primary", target |-> cli_endpoint, prompt |-> BasePrompt]
CliFallbackRequest ==
    [kind |-> "fallback", target |-> replace_https(cli_endpoint), prompt |-> BasePrompt]

\* main.py lines 160-166: the primary attempt is sent
CliSendPrimary(c) ==
    [c EXCEPT !.pc = "request", !.inflight = CliPrimaryRequest, !.sleeping = 0,
              !.attempts = @ + 1]

\* the fallback request sent to the endpoint as configured
CliSendFallbackSameTarget(c) ==
    [c EXCEPT !.pc = "fallback",
              !.inflight = [CliFallbackRequest EXCEPT !.target = cli_endpoint]]

\* main.py lines 171-175: the fallback request is sent
CliSendFallback(c) ==
    [c EXCEPT !.pc = "fallback", !.inflight = CliFallbackRequest]

RECURSIVE CliForLoop(_, _)
\* main.py lines 157-166 and 197-200: the for loop at index ii, up to the first
\* attempt of the iteration or to the return
CliForLoop(ii, c) ==
    IF ii >= num_requests
    THEN [c EXCEPT !.pc = "returned", !.inflight = NoRequest, !.sleeping = 0]
    ELSE LET c1 == [c EXCEPT !.i = ii, !.retry_count = 0, !.inflight = NoRequest,
                             !.sleeping = 0, !.attempts = 0]
         IN IF WhileCond(0, max_retries) THEN CliSendPrimary(c1)
            ELSE CliForLoop(ii + 1, c1)

\* main.py line 159: the while loop is at its top again, in the same iteration
CliWhile(c) ==
    IF WhileCond(c.retry_count, max_retries) THEN CliSendPrimary(c)
    ELSE CliForLoop(c.i + 1, c)

\* main.py lines 192-195: the pacing sleep, inside the while loop
CliPacing(c) ==
    IF PacingDue(c.i, num_requests)
    THEN [c EXCEPT !.pc = "pacing", !.inflight = NoRequest,
                   !.sleeping = request_delay, !.pacing_sleeps = @ + 1]
    ELSE CliWhile(c)

\* main.py lines 177-189: what the copy does with the outcome it uses; both
\* break statements leave the while loop without reaching lines 191-195
CliDecide(rt, rd, c) ==
    IF rd # None
    THEN /\ cli_response_times' = RecordSample(cli_response_times, rt)
         /\ CliSetCtl(CliForLoop(cli_i + 1, c))
    ELSE /\ UNCHANGED cli_response_times
         /\ LET c1 == [c EXCEPT !.retry_count = @ + 1, !.inflight = NoRequest] IN
              IF RetryAllowed(c1.retry_count, max_retries)
              THEN CliSetCtl([c1 EXCEPT !.pc = "backoff",
                                  !.sleeping = BackoffDelay(retry_delay, c1.retry_count)])
              ELSE CliSetCtl(CliForLoop(cli_i + 1, c1))

\* main.py line 170 looks httpx.SSLError up after this outcome of the primary
CliLooksUp(r) ==
    FallbackGuard(r.response_data, debug, cli_endpoint) /\ r.exception # NoException

\* async_main lines 325-328: the endpoint is rewritten when --try-http is given
CliStart ==
    /\ cli_pc = "start"
    /\ cli_pc' = "call"
    /\ cli_endpoint' = IF try_http /\ startswith_https(endpoint)
                       THEN replace_https(endpoint) ELSE endpoint
    /\ UNCHANGED <<cli_i, cli_retry_count, cli_response_times, cli_response_time,
                   cli_response_data, cli_exception, cli_inflight, cli_sleeping,
                   cli_attempts, cli_pacing_sleeps,
                   try_http, cli_stats, cli_histogram, displayed, exit_code>>

\* main.py lines 143-166: run_benchmark is entered and runs to its first suspension
CliEnter ==
    /\ cli_pc = "call"
    /\ CliSetCtl(CliForLoop(0, CliCtl))
    /\ UNCHANGED <<cli_response_times, cli_response_time, cli_response_data,
                   cli_exception, cli_main>>

\* main.py lines 164-195: the primary attempt returns; known is what the lookup
\* of httpx.SSLError at line 170 gives when it is made
CliPrimaryReturns(o, known) ==
    /\ cli_pc = "request"
    /\ LET r == make_request(o.raw, o.ssl_text, o.elapsed) IN
        /\ cli_response_time' = r.response_time
        /\ cli_response_data' = r.response_data
        /\ cli_exception' = r.exception
        /\ IF CliLooksUp(r)
           THEN IF known = "missing"
                THEN \* AttributeError, which nothing in run_benchmark catches
                     /\ CliSetCtl([CliCtl EXCEPT !.pc = "raised", !.inflight = NoRequest])
                     /\ UNCHANGED cli_response_times
                ELSE IF IsSSLRelated(r.exception)
                     THEN /\ CliSetCtl(CliSendFallback(CliCtl))
                          /\ UNCHANGED cli_response_times
                     ELSE CliDecide(r.response_time, r.response_data, CliCtl)
           ELSE CliDecide(r.response_time, r.response_data, CliCtl)
    /\ UNCHANGED cli_main

\* main.py lines 173-195: the fallback request returns
CliFallbackReturns(o) ==
    /\ cli_pc = "fallback"
    /\ LET r == AssignFallback(
                    [response_time |-> cli_response_time,
                     response_data |-> cli_response_data, exception |-> cli_exception],
                    make_request(o.raw, o.ssl_text, o.elapsed)) IN
        /\ cli_response_time' = r.response_time
        /\ cli_response_data' = r.response_data
        /\ cli_exception' = r.exception
        /\ CliDecide(r.response_time, r.response_data, CliCtl)
    /\ UNCHANGED cli_main

\* main.py lines 186, 191-195, 159-166: the backoff sleep ends; the pacing
\* sleep follows unless this is the last iteration
CliBackoffWakes ==
    /\ cli_pc = "backoff"
    /\ CliSetCtl(CliPacing(CliCtl))
    /\ UNCHANGED <<cli_response_times, cli_response_time, cli_response_data,
                   cli_exception, cli_main>>

\* main.py lines 195, 159-166: the pacing sleep ends and the while loop goes on
CliPacingWakes ==
    /\ cli_pc = "pacing"
    /\ CliSetCtl(CliWhile(CliCtl))
    /\ UNCHANGED <<cli_response_times, cli_response_time, cli_response_data,
                   cli_exception, cli_main>>

\* async_main reporting an empty run like any other
CliReportAlways ==
    /\ cli_pc = "returned"
    /\ cli_pc' = "exited"
    /\ cli_stats' = calculate_statistics(cli_response_times)
    /\ cli_histogram' = generate_ascii_histogram(cli_response_times, 10)
    /\ displayed' = TRUE
    /\ exit_code' = 0
    /\ UNCHANGED <<cli_i, cli_retry_count, cli_response_times, cli_response_time,
                   cli_response_data, cli_exception, cli_inflight, cli_sleeping,
                   cli_attempts, cli_pacing_sleeps, try_http, cli_endpoint>>

\* async_main lines 344-350 and main lines 430-431: run_benchmark has returned;
\* an empty list ends async_main before the statistics, otherwise the two
\* derived values are computed and displayed; the process ends normally
CliReport ==
    /\ cli_pc = "returned"
    /\ cli_pc' = "exited"
    /\ IF cli_response_times = <<>>
       THEN UNCHANGED <<cli_stats, cli_histogram, displayed>>
       ELSE /\ cli_stats' = calculate_statistics(cli_response_times)
            /\ cli_histogram' = generate_ascii_histogram(cli_response_times, 10)
            /\ displayed' = TRUE
    /\ exit_code' = 0
    /\ UNCHANGED <<cli_i, cli_retry_count, cli_response_times, cli_response_time,
                   cli_response_data, cli_exception, cli_inflight, cli_sleeping,
                   cli_attempts, cli_pacing_sleeps, try_http, cli_endpoint>>

\* main lines 435-437: the exception that left async_main ends the process
CliFail ==
    /\ cli_pc = "raised"
    /\ cli_pc' = "exited"
    /\ exit_code' = 1
    /\ UNCHANGED <<cli_i, cli_retry_count, cli_response_times, cli_response_time,
                   cli_response_data, cli_exception, cli_inflight, cli_sleeping,
                   cli_attempts, cli_pacing_sleeps,
                   try_http, cli_endpoint, cli_stats, cli_histogram, displayed>>

\* what a step of the command line leaves alone
api_loop == <<response_times, i, retry_count, prompt_to_use, outcome, pc, inflight,
              sleeping, sample_iter, attempts, requests_iter, backoffs, pacing_sleeps,
              all_failed, ssl_seen, last_returned>>
CliFrame == UNCHANGED <<config, credentials, posted, results, api_loop, totals>>

\* the command line has parsed its arguments (main lines 353-429)
InitCli ==
    /\ credentials = CorrectCredentials
    /\ posted = NoPost
    /\ endpoint \in Endpoints
    /\ num_requests \in 0..MaxRequests
    /\ max_retries \in -1..MaxRetries
    /\ retry_delay \in RetryDelays
    /\ request_delay \in RequestDelays
    /\ debug \in BOOLEAN
    /\ randomize_prompt = FALSE
    /\ pc = "idle"
    /\ Fresh
    /\ try_http \in BOOLEAN
    /\ cli_endpoint = <<>>
    /\ cli_pc = "start"
    /\ cli_i = -1
    /\ cli_retry_count = 0
    /\ cli_response_times = <<>>
    /\ cli_response_time = 0
    /\ cli_response_data = None
    /\ cli_exception = NoException
    /\ cli_inflight = NoRequest
    /\ cli_sleeping = 0
    /\ cli_stats = NoStats
    /\ cli_histogram = None
    /\ displayed = FALSE
    /\ exit_code = -1
    /\ cli_attempts = 0
    /\ cli_pacing_sleeps = 0

NextCli ==
    \/ CliStart /\ CliFrame /\ UNCHANGED httpx_SSLError
    \/ CliEnter /\ CliFrame /\ UNCHANGED httpx_SSLError
    \/ \E o \in TransportOutcomes : \E known \in LookupSSLError(httpx_SSLError) :
           /\ CliPrimaryReturns(o, known)
           /\ httpx_SSLError' = IF CliLooksUp(make_request(o.raw, o.ssl_text, o.elapsed))
                                 THEN known ELSE httpx_SSLError
           /\ CliFrame
    \/ \E o \in TransportOutcomes :
           CliFallbackReturns(o) /\ CliFrame /\ UNCHANGED httpx_SSLError
    \/ CliBackoffWakes /\ CliFrame /\ UNCHANGED httpx_SSLError
    \/ CliPacingWakes /\ CliFrame /\ UNCHANGED httpx_SSLError
    \/ CliReport /\ CliFrame /\ UNCHANGED httpx_SSLError
    \/ CliFail /\ CliFrame /\ UNCHANGED httpx_SSLError

SpecCli == InitCli /\ [][NextCli]_vars

(***************************************************************************)
(* The two copies of run_benchmark side by side: both are called with the  *)
(* same arguments (benchmark.py's with randomize_prompt off) against       *)
(* transports that do the same thing at every request, so the k-th request *)
(* of one copy and the k-th request of the other return in one step with   *)
(* the same outcome.  Each copy enters and wakes from its sleeps on its    *)
(* own.                                                                    *)
(***************************************************************************)
InitBoth ==
    /\ credentials = CorrectCredentials
    /\ posted = NoPost
    /\ endpoint \in Endpoints
    /\ num_requests \in 0..MaxRequests
    /\ max_retries \in -1..MaxRetries
    /\ retry_delay \in RetryDelays
    /\ request_delay \in RequestDelays
    /\ debug \in BOOLEAN
    /\ randomize_prompt = FALSE
    /\ pc = "call"
    /\ Fresh
    /\ try_http = FALSE
    /\ cli_endpoint = endpoint
    /\ cli_pc = "call"
    /\ cli_i = -1
    /\ cli_retry_count = 0
    /\ cli_response_times = <<>>
    /\ cli_response_time = 0
    /\ cli_response_data = None
    /\ cli_exception = NoException
    /\ cli_inflight = NoRequest
    /\ cli_sleeping = 0
    /\ cli_stats = NoStats
    /\ cli_histogram = None
    /\ displayed = FALSE
    /\ exit_code = -1
    /\ cli_attempts = 0
    /\ cli_pacing_sleeps = 0

\* benchmark.py lines 98-120 and main.py lines 164-195: the request each copy
\* waits for returns, with the same outcome o; the lookup of httpx.SSLError
\* gives both copies the same answer
BothReturn(o) ==
    /\ pc \in {"request", "fallback"}
    /\ cli_pc \in {"request", "fallback"}
    /\ IF pc = "request" THEN PrimaryReturns(o, "none") ELSE FallbackReturns(o, "none")
    /\ \E known \in LookupSSLError(httpx_SSLError') :
          IF cli_pc = "request" THEN CliPrimaryReturns(o, known)
          ELSE CliFallbackReturns(o)
    /\ UNCHANGED <<credentials, posted, totals>>

NextBoth ==
    \/ Enter("none") /\ ApiFrame
    \/ CliEnter /\ CliFrame /\ UNCHANGED httpx_SSLError
    \/ \E o \in TransportOutcomes : BothReturn(o)
    \/ BackoffWakes("none") /\ ApiFrame
    \/ PacingWakes("none") /\ ApiFrame
    \/ CliBackoffWakes /\ CliFrame /\ UNCHANGED httpx_SSLError
    \/ CliPacingWakes /\ CliFrame /\ UNCHANGED httpx_SSLError

SpecBoth == InitBoth /\ [][NextBoth]_vars

(***************************************************************************)
(* A counted run of benchmark.py's run_benchmark in which every awaited    *)
(* call returns: each request comes back with some outcome and each sleep  *)
(* ends.  Every step that ends at the await of line 98 has sent a primary  *)
(* attempt, every step that ends at the await of line 106 a fallback.      *)
(***************************************************************************)
Counted ==
    /\ total_attempts' = total_attempts + (IF pc' = "request" THEN 1 ELSE 0)
    /\ total_requests' = total_requests + (IF pc' \in {"request", "fallback"} THEN 1 ELSE 0)
    /\ UNCHANGED <<credentials, posted, cli_loop, cli_main>>

\* the counted run is called without randomize_prompt
InitCounted ==
    /\ credentials = CorrectCredentials
    /\ posted = NoPost
    /\ CliIdle
    /\ endpoint \in Endpoints
    /\ num_requests \in 0..MaxRequests
    /\ max_retries \in -1..MaxRetries
    /\ retry_delay \in RetryDelays
    /\ request_delay \in RequestDelays
    /\ debug \in BOOLEAN
    /\ randomize_prompt = FALSE
    /\ pc = "call"
    /\ Fresh

\* what the requests of a counted run do: anything, in one unit of time
CountedOutcomes == {o \in TransportOutcomes : o.elapsed = 1}

NextCounted ==
    \/ Enter("none") /\ Counted
    \/ \E o \in CountedOutcomes : PrimaryReturns(o, "none") /\ Counted
    \/ \E o \in CountedOutcomes : FallbackReturns(o, "none") /\ Counted
    \/ BackoffWakes("none") /\ Counted
    \/ PacingWakes("none") /\ Counted

\* the run goes on as long as it can: lines 98 and 106 await calls that return,
\* lines 116 and 120 sleeps that end
SpecCounted == InitCounted /\ [][NextCounted]_vars /\ WF_vars(NextCounted)

(***************************************************************************)
(* make_request called on its own: a caller awaits it a few times in a     *)
(* row (benchmark.py lines 14-64), with what the transport does each time. *)
(***************************************************************************)
InitRequest ==
    /\ credentials = CorrectCredentials
    /\ posted = NoPost
    /\ CliIdle
    /\ endpoint \in Endpoints
    /\ num_requests = 0
    /\ max_retries = MaxRetries
    /\ retry_delay \in RetryDelays
    /\ request_delay \in RequestDelays
    /\ debug \in BOOLEAN
    /\ randomize_prompt = FALSE
    /\ pc = "direct"
    /\ Fresh

\* lines 35-64: one call, from the POST to the returned triple
Post(o) ==
    /\ pc = "direct"
    /\ attempts <= max_retries
    /\ attempts' = attempts + 1
    /\ posted' = o
    /\ LET r == make_request(o.raw, o.ssl_text, o.elapsed) IN
        /\ response_time' = r.response_time
        /\ response_data' = r.response_data
        /\ exception' = r.exception
    /\ UNCHANGED <<config, httpx_SSLError, results, response_times, i, retry_count,
                   prompt_to_use, pc, inflight, sleeping, sample_iter, requests_iter,
                   backoffs, pacing_sleeps, all_failed, ssl_seen, last_returned,
                   credentials, cli_loop, cli_main, totals>>

NextRequest == \E o \in TransportOutcomes : Post(o)

SpecRequest == InitRequest /\ [][NextRequest]_vars

(***************************************************************************)
(* The calculators on longer sequences: run_benchmark has just returned a  *)
(* sequence of c samples (every iteration succeeded at its first attempt), *)
(* and the handler goes on.                                                *)
(***************************************************************************)
Sample(c, a, m) == [k \in 1..c |-> ((a * k) % m) + 1]

\* the ten latencies 1, 2, ..., 10 in some order
TenLatencies(a, r) == [k \in 1..10 |-> (a * (((k + r - 1) % 10) + 1)) % 11]

\* c samples of the same value
EqualSamples(c, v) == [k \in 1..c |-> v]

StatsInputs ==
    {Sample(c, a, m) : c \in 0..MaxCount, a \in {1, 37, 102}, m \in {103, 7}}
    \cup {TenLatencies(a, r) : a \in 1..10, r \in 0..9}
    \cup {EqualSamples(c, 3) : c \in 1..MaxCount}

InitStats ==
    /\ credentials = CorrectCredentials
    /\ posted = NoPost
    /\ CliIdle
    /\ \E t \in StatsInputs :
        /\ endpoint = <<"http://", "host">>
        /\ num_requests = Len(t)
        /\ max_retries = 0
        /\ retry_delay = 1
        /\ request_delay = 2
        /\ debug = FALSE
        /\ randomize_prompt = FALSE
        /\ httpx_SSLError = "unknown"
        /\ response_times = t
        /\ i = Len(t) - 1
        /\ retry_count = 0
        /\ prompt_to_use = BasePrompt
        /\ response_time = IF t = <<>> THEN 0 ELSE t[Len(t)]
        /\ response_data = IF t = <<>> THEN None ELSE Body
        /\ exception = NoException
        /\ pc = "returned"
        /\ inflight = NoRequest
        /\ sleeping = 0
        /\ stats = NoStats
        /\ histogram = None
        /\ response = NoResponse
        /\ sample_iter = [k \in 1..Len(t) |-> k - 1]
        /\ attempts = IF t = <<>> THEN 0 ELSE 1
        /\ requests_iter = IF t = <<>> THEN 0 ELSE 1
        /\ backoffs = 0
        /\ pacing_sleeps = IF t = <<>> THEN 0 ELSE Len(t) - 1
        /\ all_failed = (t = <<>>)
        /\ ssl_seen = FALSE
        /\ last_returned = NoReturn
        /\ total_attempts = 0
        /\ total_requests = 0

\* generate_ascii_histogram called with a number of buckets of its caller's
\* choice on the sequence run_benchmark returned
CallHistogram(bins) ==
    /\ pc = "returned"
    /\ pc' = "drawn"
    /\ histogram' = generate_ascii_histogram(response_times, bins)
    /\ response_times' = ListAfterHistogram(response_times)
    /\ UNCHANGED <<config, httpx_SSLError, outcome, i, retry_count,
                   prompt_to_use, inflight, sleeping, stats, response,
                   sample_iter, attempts, requests_iter,
                   backoffs, pacing_sleeps, all_failed, ssl_seen, last_returned>>

NextStats ==
    \/ ApiRespond /\ ApiFrame
    \/ \E bins \in 1..MaxBins : CallHistogram(bins) /\ ApiFrame

SpecStats == InitStats /\ [][NextStats]_vars


(***************************************************************************)
(* Properties of the benchmark loop.                                       *)
(***************************************************************************)
Finished == pc \in {"returned", "responded"}
InAttempt == pc \in {"request", "fallback"}

\* C1: the list holds at most one sample per iteration (so at most
\* num_requests samples), and the samples are in increasing iteration order.
C1_OneSamplePerIteration ==
    /\ Len(sample_iter) = Len(response_times)
    /\ Len(response_times) <= num_requests
    /\ \A k \in 1..Len(sample_iter) : sample_iter[k] \in 0..(num_requests - 1)
    /\ \A j, k \in 1..Len(sample_iter) : j < k => sample_iter[j] < sample_iter[k]

\* a run of two iterations that returned a sample of each
C1_Witness == pc = "returned" /\ sample_iter = <<0, 1>> /\ Len(response_times) = 2

\* C2: a sample is appended exactly when the attempt whose outcome is used
\* (the primary, or the fallback when one was made) returned a body; the
\* value is the elapsed time of that one attempt; and no attempt is made in
\* an iteration that has its sample.
C2_Step ==
    LET used == InAttempt /\ pc' # "fallback"
        appended == response_times' # response_times
    IN /\ appended <=> (used /\ last_returned'.body)
       /\ appended => response_times' = Append(response_times, last_returned'.elapsed)
       /\ appended => (pc' \in {"pacing", "returned"} \/ i' # i)
       /\ pc' \in {"request", "fallback"} =>
              \A k \in 1..Len(sample_iter') : sample_iter'[k] # i'

C2_SampleIsUsedAttempt == [][C2_Step]_vars

\* a successful fallback after an earlier failed attempt of the iteration, its
\* elapsed time recorded and different from the failed primary's
C2_Witness ==
    /\ pc \in {"pacing", "returned"}
    /\ attempts >= 2
    /\ last_returned.kind = "fallback" /\ last_returned.body
    /\ last_returned.elapsed = 1
    /\ response_times # <<>>
    /\ response_times[Len(response_times)] = 1
    /\ sample_iter[Len(sample_iter)] = i

\* C3: with an executor that always fails and no fallback applicable, every
\* iteration makes exactly max_retries + 1 attempts and the run returns an
\* empty list; with max_retries = 0 there is no backoff sleep.
C3_AlwaysFailing ==
    (/\ all_failed
     /\ max_retries >= 0
     /\ ~(debug /\ startswith_https(endpoint) /\ ssl_seen))
    => /\ pc # "raised"
       /\ requests_iter = attempts
       /\ (pc \in {"pacing", "returned", "responded"} /\ num_requests >= 1)
              => attempts = max_retries + 1
       /\ Finished => response_times = <<>>
       /\ max_retries = 0 => (backoffs = 0 /\ pc # "backoff")

\* C4: after the k-th failed attempt of an iteration, k <= max_retries, the
\* loop sleeps retry_delay * k and then makes the next attempt of the
\* iteration; no backoff sleep follows the last failed attempt or a success.
C4_Step ==
    LET used == InAttempt /\ pc' \notin {"fallback", "raised"}
        failed == used /\ ~last_returned'.body
        succeeded == used /\ last_returned'.body
    IN /\ (failed /\ attempts <= max_retries) =>
              /\ pc' = "backoff"
              /\ sleeping' = retry_delay * attempts
              /\ backoffs' = backoffs + 1
              /\ i' = i
       /\ (failed /\ attempts > max_retries) => pc' # "backoff"
       /\ succeeded => pc' # "backoff"
       /\ (pc' = "backoff" /\ pc # "backoff") => failed
       /\ pc = "backoff" =>
              /\ pc' = "request"
              /\ inflight'.kind = "primary"
              /\ attempts' = attempts + 1
              /\ i' = i

C5_Pacing ==
    /\ pc = "call" => pacing_sleeps = 0
    /\ pc \in {"request", "fallback", "backoff", "raised"} => pacing_sleeps = i
    /\ pc = "pacing" =>
          /\ pacing_sleeps = i + 1
          /\ i < num_requests - 1
          /\ sleeping = request_delay
    /\ Finished => pacing_sleeps = (IF num_requests >= 1 THEN num_requests - 1 ELSE 0)

\* a complete run of two iterations, the first without a sample: one sleep
C5_Witness ==
    pc = "returned" /\ num_requests = 2 /\ sample_iter = <<1>> /\ pacing_sleeps = 1

\* C6: a primary attempt targets the configured endpoint; a request to the
\* endpoint rewritten to http:// is in flight only when the primary attempt
\* just before it returned no body but an SSL/TLS-related error, debug is
\* set and the endpoint starts with https://.
C6_Targets ==
    /\ pc = "request" => (inflight.kind = "primary" /\ inflight.target = endpoint)
    /\ (\/ pc = "fallback"
        \/ inflight.kind = "fallback"
        \/ (inflight.kind # "none" /\ inflight.target # endpoint))
       => /\ debug
          /\ endpoint[1] = "https://"
          /\ inflight.target = <<"http://">> \o Tail(endpoint)
          /\ last_returned.kind = "primary"
          /\ ~last_returned.body
          /\ last_returned.error = "ssl"

\* a primary attempt in flight right after a failed fallback
C6_Witness ==
    /\ pc = "request"
    /\ last_returned.kind = "fallback" /\ ~last_returned.body
    /\ inflight.target = <<"https://", "host">>

\* C7: a fallback request is followed by no second fallback; its outcome is
\* the one used: a body is recorded with the fallback's elapsed time and ends
\* the iteration, a failure adds exactly 1 to retry_count; an iteration
\* issues at most 2 * (max_retries + 1) requests.
C7_Step ==
    /\ pc = "fallback" =>
          /\ pc' # "fallback"
          /\ last_returned'.kind = "fallback"
          /\ IF last_returned'.body
             THEN /\ response_times' = Append(response_times, last_returned'.elapsed)
                  /\ (pc' \in {"pacing", "returned"} \/ i' # i)
             ELSE /\ response_times' = response_times
                  /\ retry_count' = retry_count + 1
    /\ (pc = "request" /\ pc' = "fallback") =>
          /\ requests_iter' = requests_iter + 1
          /\ attempts' = attempts
          /\ retry_count' = retry_count
          /\ i' = i
    /\ requests_iter' <= 2 * attempts'
    /\ max_retries >= 0 => requests_iter' <= 2 * (max_retries + 1)

C8_NeverRaises ==
    /\ pc # "raised"
    /\ (Finished /\ num_requests >= 1) => i = num_requests - 1

(***************************************************************************)
(* Properties of the calculators.                                          *)
(***************************************************************************)
\* C9: for an empty sequence the summary has its nine fields 0 and the
\* histogram is the text "No data to display"; the handler returns the two
\* as a normal response.
C9_EmptyResult ==
    (pc = "responded" /\ response_times = <<>>)
    => /\ stats = [count |-> 0, min |-> 0, max |-> 0,
                   mean |-> [num |-> 0, den |-> 1],
                   median |-> [num |-> 0, den |-> 1],
                   stdev |-> [num |-> 0, den |-> 1],
                   p90 |-> 0, p95 |-> 0, p99 |-> 0]
       /\ histogram = "No data to display"
       /\ response = [status |-> 200, stats |-> stats, histogram |-> histogram]

\* the handler has responded after a run of two iterations that both failed
C9_Witness ==
    /\ pc = "responded"
    /\ num_requests = 2 /\ all_failed /\ attempts >= 1
    /\ response.status = 200

\* the value at 0-based position idx of the ascending order of t
KthSmallest(t, idx) ==
    CHOOSE v \in {t[k] : k \in 1..Len(t)} :
        /\ Cardinality({j \in 1..Len(t) : t[j] < v}) <= idx
        /\ idx < Cardinality({j \in 1..Len(t) : t[j] <= v})

\* C10: for c samples with ascending order s, p90 = s[floor(0.9 c) - 1] if
\* c >= 10, p95 = s[floor(0.95 c) - 1] if c >= 20, p99 = s[floor(0.99 c) - 1]
\* if c >= 100, and s[c - 1] otherwise; the position is within 0..c-1.
C10_Percentiles ==
    (pc = "responded" /\ response_times # <<>>)
    => LET c == Len(response_times)
           idx90 == IF c >= 10 THEN ((9 * c) \div 10) - 1 ELSE c - 1
           idx95 == IF c >= 20 THEN ((19 * c) \div 20) - 1 ELSE c - 1
           idx99 == IF c >= 100 THEN ((99 * c) \div 100) - 1 ELSE c - 1
       IN /\ {idx90, idx95, idx99} \subseteq 0..(c - 1)
          /\ stats.p90 = KthSmallest(response_times, idx90)
          /\ stats.p95 = KthSmallest(response_times, idx95)
          /\ stats.p99 = KthSmallest(response_times, idx99)
          /\ c = 9 => (stats.p90 = stats.max /\ stats.p95 = stats.max
                       /\ stats.p99 = stats.max)
          /\ c = 10 => stats.p90 = KthSmallest(response_times, 8)
          /\ c = 100 => stats.p99 = KthSmallest(response_times, 98)

\* a hundred different samples: the three percentiles differ from each other
\* and from the maximum
C10_Witness ==
    /\ pc = "responded"
    /\ Len(response_times) = 100
    /\ stats.p90 < stats.p95 /\ stats.p95 < stats.p99 /\ stats.p99 < stats.max

\* the latencies 0.1, 0.2, ..., 1.0 in some order, in tenths of a second
IsTenLatencies(t) == Len(t) = 10 /\ {t[k] : k \in 1..10} = 1..10

\* C11 as stated: for the ten latencies 0.1, ..., 1.0 in any order the summary
\* has count 10, min 0.1, max 1.0 and p90 1.0.
C11_TenLatencies ==
    (pc = "responded" /\ IsTenLatencies(response_times))
    => /\ stats.count = 10
       /\ stats.min = 1
       /\ stats.max = 10
       /\ stats.p90 = 10

\* C11 amended: for the ten latencies 0.1, ..., 1.0 in any order the summary
\* has count 10, min 0.1, max 1.0 and p90 0.9 (the sample at position
\* floor(10 * 0.9) - 1 = 8 of the ascending order).
C11_TenLatenciesAmended ==
    (pc = "responded" /\ IsTenLatencies(response_times))
    => /\ stats.count = 10
       /\ stats.min = 1
       /\ stats.max = 10
       /\ stats.p90 = 9

\* the ten latencies in descending order have been summarised
C11_Witness ==
    /\ pc = "responded"
    /\ response_times = <<10, 9, 8, 7, 6, 5, 4, 3, 2, 1>>
    /\ stats.count = 10

\* what the histogram h of the non-empty sequence t must be for bins buckets
HistogramOK(t, h, bins) ==
    LET lo == min(t)
        hi == max(t)
        idx(v) == IF lo = hi THEN 0
                  ELSE LET f == ((v - lo) * bins) \div (hi - lo)
                       IN IF f > bins - 1 THEN bins - 1 ELSE f
    IN /\ Len(h.lines) = bins
       /\ \A k \in 1..bins :
             h.lines[k].count = Cardinality({j \in 1..Len(t) : idx(t[j]) = k - 1})
       /\ \A j \in 1..Len(t) : idx(t[j]) \in 0..(bins - 1)
       /\ SumSeq([k \in 1..bins |-> h.lines[k].count], bins) = Len(t)
       /\ lo # hi => (idx(hi) = bins - 1 /\ h.lines[bins].count >= 1)
       /\ h.lines[1].bin_start = Frac(lo, 1)
       /\ \A k \in 1..(bins - 1) :
             FracLess(h.lines[k].bin_start, h.lines[k + 1].bin_start)

\* C12: the histogram of a non-empty sequence for bins >= 1 buckets counts
\* every sample in the one bucket min(bins-1, floor((value - min) / width)),
\* so the counts add up to the number of samples; the largest sample is in
\* the last bucket when min # max; and there are exactly bins lines, in
\* ascending order of their buckets, those with count 0 included.
C12_Step ==
    /\ (ApiRespond /\ response_times # <<>>)
          => HistogramOK(response_times, histogram', 10)
    /\ \A bins \in 1..MaxBins :
          (CallHistogram(bins) /\ response_times # <<>>)
             => HistogramOK(response_times, histogram', bins)

C12_Buckets == [][C12_Step]_vars

\* two samples in three buckets: the largest is clamped into the last
\* bucket and the middle bucket is empty
C12_Witness ==
    /\ pc = "drawn"
    /\ response_times = <<2, 3>>
    /\ histogram.bin_counts = <<1, 0, 1>>

\* C13: when all samples are equal the bucket width is 0.1 and the first
\* bucket holds all the samples; every other bucket is empty.
C13_EqualSamples ==
    (/\ pc \in {"responded", "drawn"}
     /\ response_times # <<>>
     /\ \A k \in 1..Len(response_times) : response_times[k] = response_times[1])
    => /\ histogram.bin_width = [num |-> 1, den |-> 10]
       /\ histogram.lines[1].count = Len(response_times)
       /\ \A k \in 2..Len(histogram.lines) : histogram.lines[k].count = 0

\* three equal samples drawn in four buckets
C13_Witness ==
    /\ pc = "drawn"
    /\ response_times = <<3, 3, 3>>
    /\ Len(histogram.lines) = 4
    /\ histogram.lines[1].count = 3

(***************************************************************************)
(* Properties of the API's request handling.                               *)
(***************************************************************************)
\* C14: run_benchmark is entered, and a request is issued to the benchmarked
\* endpoint, only when the credentials match the configured pair and
\* num_requests is within 1..1000; a request without credentials or with a
\* wrong pair ends in 401 and one with num_requests 0 or 1001 in 422, and in
\* both cases no request has been issued.
C14_Gate ==
    LET authorized == /\ credentials.present
                      /\ credentials.username = API_USERNAME
                      /\ credentials.password = API_PASSWORD
    IN /\ (pc \notin {"http", "rejected"} \/ inflight.kind # "none")
          => (authorized /\ num_requests \in 1..1000)
       /\ (pc # "http" /\ ~authorized) => (pc = "rejected" /\ response.status = 401)
       /\ (pc # "http" /\ authorized /\ num_requests \in {0, 1001})
          => (pc = "rejected" /\ response.status = 422)
       /\ pc = "rejected"
          => /\ inflight = NoRequest
             /\ i = -1
             /\ attempts = 0
             /\ requests_iter = 0
             /\ last_returned = NoReturn
             /\ response_times = <<>>

\* the right pair with num_requests = 1001 has been refused
C14_Witness ==
    /\ pc = "rejected"
    /\ credentials = [present |-> TRUE, username |-> "admin", password |-> "password"]
    /\ num_requests = 1001
    /\ response.status = 422

(***************************************************************************)
(* Properties of make_request.                                             *)
(***************************************************************************)
\* C18: every call of make_request ends with a returned triple of one of three
\* shapes: a body and no error only when the status is 200; no body and no
\* error when the status is not 200; no body and an error when the send timed
\* out, failed in the transport or raised anything else, a 200 body that does
\* not parse included.  A body and an error never come together, and the first
\* component is the elapsed time.
C18_Shapes ==
    posted # NoPost =>
        LET body == response_data # None
            error == exception # NoException
        IN /\ response_time = posted.elapsed
           /\ ~(body /\ error)
           /\ body => posted.raw \in {"200_json", "200_null", "200_unparseable"}
           /\ posted.raw = "non200" => (~body /\ ~error)
           /\ posted.raw \in Raising \cup {"200_unparseable"} => (~body /\ error)
           /\ posted.raw = "200_json" => (body /\ ~error)

\* a 200 response whose body did not parse has come back as an error
C18_Witness ==
    /\ posted # NoPost
    /\ posted.raw = "200_unparseable"
    /\ response_data = None
    /\ exception.type = "Exception"
    /\ attempts = 2

(***************************************************************************)
(* Properties of the loop's requests.                                      *)
(***************************************************************************)
\* a request is started in this step
C19_Started ==
    /\ inflight' # NoRequest
    /\ (requests_iter' # requests_iter \/ i' # i)

\* C19: at most one request of a run is in flight at any time: the loop waits
\* for the primary request exactly while one is in flight and for the fallback
\* request exactly while one is in flight, no request is in flight during a
\* backoff or pacing sleep (nor before the run or after it), and a request
\* starts only when none is in flight or in the step in which the previous one
\* has returned its outcome.
C19_OneInFlight ==
    /\ [](/\ (inflight.kind = "primary") <=> (pc = "request")
          /\ (inflight.kind = "fallback") <=> (pc = "fallback")
          /\ pc \in {"call", "backoff", "pacing", "returned", "raised", "responded"}
                => inflight = NoRequest)
    /\ [][C19_Started =>
            \/ inflight = NoRequest
            \/ /\ last_returned'.kind = inflight.kind
               /\ response_time' = last_returned'.elapsed
               /\ inflight'.kind # inflight.kind]_vars

\* the loop sleeps before a retry after a fallback request has returned
C19_Witness ==
    /\ pc = "backoff"
    /\ last_returned.kind = "fallback"
    /\ requests_iter = 2
    /\ inflight = NoRequest

\* C20: with randomize_prompt set the effective prompt is the base prompt with
\* a bracketed random suffix, chosen when the iteration starts and at no other
\* point: it does not change while the iteration lasts, and every request of
\* the iteration (first attempt, retries, fallbacks) carries it; with
\* randomize_prompt off every request carries the base prompt unchanged.
C20_PromptPerIteration ==
    /\ [](inflight # NoRequest =>
            /\ inflight.prompt = prompt_to_use
            /\ randomize_prompt =>
                  \E s \in Suffixes : inflight.prompt = BasePrompt \o <<" [rnd:", s, "]">>
            /\ ~randomize_prompt => inflight.prompt = BasePrompt)
    /\ [][i' = i => prompt_to_use' = prompt_to_use]_vars

\* the fallback request of a retry in the second iteration carries that
\* iteration's randomized prompt
C20_Witness ==
    /\ pc = "fallback"
    /\ randomize_prompt
    /\ i = 1
    /\ attempts = 2
    /\ inflight.prompt = BasePrompt \o <<" [rnd:", "rnd2", "]">>

(***************************************************************************)
(* Properties of the command line.                                         *)
(***************************************************************************)
\* C15: in main.py's copy of the loop one pacing sleep of request_delay
\* follows every iteration but the last, whether the iteration recorded a
\* sample or not (a complete run of num_requests >= 1 iterations has
\* num_requests - 1 of them), and a pacing sleep is never followed by another
\* attempt of the same iteration.
C15_CliPacing ==
    /\ [](/\ cli_pc \in {"start", "call"} => cli_pacing_sleeps = 0
          /\ cli_pc \in {"request", "fallback", "backoff", "raised"}
                => cli_pacing_sleeps = cli_i
          /\ cli_pc = "pacing" =>
                /\ cli_pacing_sleeps = cli_i + 1
                /\ cli_sleeping = request_delay
          /\ cli_pc = "returned" =>
                cli_pacing_sleeps = (IF num_requests >= 1 THEN num_requests - 1 ELSE 0))
    /\ [][cli_pc = "pacing" /\ cli_pc' = "request" => cli_i' # cli_i]_vars

\* C17 as stated: a run of the command line that returns no sample is
\* reported like any other: the all-zero statistics and the histogram text
\* "No data to display" are computed and displayed, and the exit code is 0.
C17_EmptyRun ==
    (cli_pc = "exited" /\ cli_response_times = <<>> /\ httpx_SSLError # "missing") =>
        /\ displayed
        /\ cli_stats = calculate_statistics(<<>>)
        /\ cli_histogram = "No data to display"
        /\ exit_code = 0

\* C17, amended: when run_benchmark returns no sample async_main returns at
\* once: no statistics and no histogram are computed and nothing is displayed;
\* a run with samples has both computed from the samples and displayed.  The
\* exit code is 0 in both cases, and 1 only when the lookup of httpx.SSLError
\* raised.
C17_EmptyRunAmended ==
    cli_pc = "exited" =>
        /\ exit_code = (IF httpx_SSLError = "missing" THEN 1 ELSE 0)
        /\ (exit_code = 0 /\ cli_response_times = <<>>) =>
              (~displayed /\ cli_stats = NoStats /\ cli_histogram = None)
        /\ (exit_code = 0 /\ cli_response_times # <<>>) =>
              /\ displayed
              /\ cli_stats = calculate_statistics(cli_response_times)
              /\ cli_histogram = generate_ascii_histogram(cli_response_times, 10)

\* a complete run of two iterations without a sample has ended with exit code 0
C17_Witness ==
    /\ cli_pc = "exited"
    /\ num_requests = 2
    /\ max_retries = 1
    /\ cli_response_times = <<>>
    /\ exit_code = 0
    /\ ~displayed

\* C16: called with the same arguments and given the same outcome for each
\* request in turn, the two copies of run_benchmark issue the same requests in
\* the same order: whenever both wait for a request it is the same request
\* (kind, target, prompt) of the same attempt of the same iteration, with the
\* same samples recorded so far; neither copy waits for a request the other
\* never issues; and when both have returned they return the same latencies.
C16_SameRequests ==
    LET api_waits == pc \in {"request", "fallback"}
        cli_waits == cli_pc \in {"request", "fallback"}
    IN /\ (api_waits /\ cli_waits) =>
             /\ inflight = cli_inflight
             /\ i = cli_i
             /\ attempts = cli_attempts
             /\ response_times = cli_response_times
       /\ ~(api_waits /\ cli_pc \in {"returned", "raised"})
       /\ ~(cli_waits /\ pc \in {"returned", "raised"})
       /\ (pc = "raised") <=> (cli_pc = "raised")
       /\ (pc = "returned" /\ cli_pc = "returned") => response_times = cli_response_times

\* both copies have returned two samples, the first one after a retry; the
\* command line has paced inside the first iteration, the API between the two
C16_Witness ==
    /\ pc = "returned"
    /\ cli_pc = "returned"
    /\ response_times = <<1, 2>>
    /\ cli_response_times = <<1, 2>>
    /\ pacing_sleeps = 1
    /\ cli_pacing_sleeps = 1

(***************************************************************************)
(* Properties of the histogram's bars.                                     *)
(***************************************************************************)
\* the histogram of a non-empty sequence has been computed
HistogramDrawn == pc \in {"drawn", "responded"} /\ response_times # <<>>

\* C21: for a non-empty sequence every bucket's bar has length
\* floor(count * 40 / max_count), max_count being the largest bucket count: no
\* bar is longer than 40, a bucket with the largest count has exactly 40, an
\* empty bucket has 0, and a larger count never has a shorter bar.
C21_Bars ==
    HistogramDrawn =>
        LET lines == histogram.lines
            max_count == MaxOfCounts(histogram.bin_counts)
        IN \A k \in 1..Len(lines) :
              /\ lines[k].bar = (lines[k].count * 40) \div max_count
              /\ lines[k].bar <= 40
              /\ lines[k].count = max_count => lines[k].bar = 40
              /\ lines[k].count = 0 => lines[k].bar = 0
              /\ \A j \in 1..Len(lines) :
                    lines[j].count > lines[k].count => lines[j].bar >= lines[k].bar

\* what of C21 holds of the code: bars are within 0..40, empty buckets have
\* none, larger counts never have shorter bars, and a bar is the floor or
\* one less
C21_BarsWithinOne ==
    HistogramDrawn =>
        LET lines == histogram.lines
            max_count == MaxOfCounts(histogram.bin_counts)
        IN \A k \in 1..Len(lines) :
              /\ lines[k].bar \in {(lines[k].count * 40) \div max_count,
                                   ((lines[k].count * 40) \div max_count) - 1}
              /\ lines[k].bar >= 0
              /\ lines[k].bar <= 40
              /\ lines[k].count = 0 => lines[k].bar = 0
              /\ \A j \in 1..Len(lines) :
                    lines[j].count > lines[k].count => lines[j].bar >= lines[k].bar

C23_Ordered ==
    (pc = "responded" /\ response_times # <<>>) =>
        /\ stats.count = Len(response_times)
        /\ stats.min <= stats.p90
        /\ stats.p90 <= stats.p95
        /\ stats.p95 <= stats.p99
        /\ stats.p99 <= stats.max
        /\ stats.median.den > 0
        /\ stats.min * stats.median.den <= stats.median.num
        /\ stats.median.num <= stats.max * stats.median.den
        /\ stats.count = 1 =>
              /\ {stats.min, stats.max, stats.p90, stats.p95, stats.p99}
                    = {response_times[1]}
              /\ stats.mean = Frac(response_times[1], 1)
              /\ stats.median = Frac(response_times[1], 1)
              /\ stats.stdev = Zero

\* twenty samples that are not in ascending order: the first count at which
\* p95 is taken by its index, and it lies strictly between p90 and the maximum
C23_Witness ==
    /\ pc = "responded"
    /\ Len(response_times) = 20
    /\ response_times[1] > response_times[20]
    /\ stats.p90 < stats.p95
    /\ stats.p95 < stats.max
    /\ stats.p99 = stats.max

(***************************************************************************)
(* Termination and the number of requests of a run.                        *)
(***************************************************************************)
\* C24: when every awaited call returns, run_benchmark ends; with
\* max_retries >= 0 it has started at most num_requests * (max_retries + 1)
\* primary attempts and at most twice as many requests, fallbacks included,
\* and retry_count is never above max_retries + 1.
C24_Terminates ==
    /\ <>(pc \in {"returned", "raised"})
    /\ [](max_retries >= 0 =>
            /\ total_attempts <= num_requests * (max_retries + 1)
            /\ total_requests <= 2 * num_requests * (max_retries + 1))
    /\ [](retry_count <= max_retries + 1 /\ total_attempts <= total_requests)

\* a run has returned after as many requests as a run can make: every primary
\* attempt failed with an SSL/TLS-related error and every fallback failed too
C24_Witness ==
    /\ pc = "returned"
    /\ num_requests = 2
    /\ max_retries = 2
    /\ total_attempts = 6
    /\ total_requests = 12
    /\ retry_count = 3

\* C25: with a negative max_retries, which the API passes on as it comes, no
\* request is issued in any iteration and the run returns an empty list after
\* its num_requests - 1 pacing sleeps; an iteration makes at least one attempt
\* exactly when max_retries >= 0.
C25_NegativeRetries ==
    /\ max_retries < 0 =>
          /\ attempts = 0
          /\ requests_iter = 0
          /\ inflight = NoRequest
          /\ last_returned = NoReturn
          /\ pc \notin {"request", "fallback", "backoff", "raised"}
          /\ response_times = <<>>
          /\ pc = "pacing" => pacing_sleeps = i + 1
          /\ Finished =>
                pacing_sleeps = (IF num_requests >= 1 THEN num_requests - 1 ELSE 0)
          /\ pc = "responded" => response.status = 200 /\ response.stats.count = 0
    /\ i >= 0 => ((attempts >= 1) <=> (max_retries >= 0))

\* the handler has answered for a run of two iterations with max_retries = -1
C25_Witness ==
    /\ pc = "responded"
    /\ max_retries = -1
    /\ num_requests = 2
    /\ i = 1
    /\ pacing_sleeps = 1
    /\ response.stats.count = 0

====
